---- MODULE Spec2Model ----
(***************************************************************************)
(* Watch mode of scripts/build.ts (Builder.watch): the supervisor of the   *)
(* editor-core watcher (vscode), the type-checker watcher (tsc), the       *)
(* bundler and the forked server, together with the line reader (onLine)   *)
(* that feeds the output triggers.                                         *)
(*                                                                         *)
(* Every handler of the script runs to completion on one thread, so each   *)
(* handler is one action.  Callbacks registered with bundle.then() run as  *)
(* microtasks: once the promise is resolved they run before any other      *)
(* event is handled (MicrotaskReady).  process.exit() ends the run: no     *)
(* handler runs in phase "Terminated".                                     *)
(*                                                                         *)
(* Output is modelled as a sequence of symbols.  In the supervisor the     *)
(* symbols are the marker texts that the triggers look for and the         *)
(* newline; in the line reader specification (SpecReader) they are single  *)
(* characters, including an escape character.  Of the console output only  *)
(* the "terminated unexpectedly" messages and the kill/exit effects of     *)
(* cleanup are recorded (trace).                                           *)
(***************************************************************************)
EXTENDS Integers, Sequences, FiniteSets, TLC

\* ---------------------------------------------------------------- bounds
MaxChunk == 2          \* symbols in one chunk of child output
MaxBuf == 1            \* symbols of unterminated tails kept between chunks, both watchers together
MaxVscodeLines == 3    \* complete lines read from the editor-core watcher
MaxRestarts == 2       \* "Watching for file changes" lines read from tsc
MaxStream == 4         \* characters of a stream in SpecReader

\* ------------------------------------------------------------- symbols
NL == "\n"
StartingWatchClient == "Starting watch-client"
FinishedCompilation == "Finished compilation"
WatchingForFileChanges == "Watching for file changes"

VscodeAlphabet == {StartingWatchClient, FinishedCompilation, NL}
TscAlphabet == {WatchingForFileChanges, NL}
\* characters of SpecReader: ESC [ ... m is the escape sequence form the
\* pattern matches over these characters, "x" is ordinary text
ReaderAlphabet == {"ESC", "[", "m", "x", NL}

RECURSIVE SeqsUpTo(_, _)
SeqsUpTo(S, n) ==
  IF n = 0 THEN {<<>>}
  ELSE LET shorter == SeqsUpTo(S, n - 1)
       IN shorter \cup {Append(s, c) : s \in {t \in shorter : Len(t) = n - 1}, c \in S}

Chunks(S) == SeqsUpTo(S, MaxChunk) \ {<<>>}

\* ------------------------------------------------------- exit statuses
\* the argument of cleanup / the code of a child's "exit" event
Undefined == <<"undefined">>
Null == <<"null">>
Num(n) == <<"num", n>>
ChildExitCodes == {Num(0), Num(1), Num(2), Null}

\* `code || 0`
OrZero(code) == IF code[1] = "num" /\ code[2] # 0 THEN code[2] ELSE 0

\* ------------------------------------------------------- the line reader
\* data.split("\n"): the segments between newlines, always at least one
RECURSIVE Split(_)
Split(s) ==
  IF \A i \in 1..Len(s) : s[i] # NL THEN <<s>>
  ELSE LET i == CHOOSE k \in 1..Len(s) : s[k] = NL /\ \A j \in 1..(k - 1) : s[j] # NL
       IN <<SubSeq(s, 1, i - 1)>> \o Split(SubSeq(s, i + 1, Len(s)))

\* length of the match of the ANSI pattern `re` that starts at s[i], 0 if
\* none.  Over the modelled characters the pattern is: ESC, any number of
\* "[", then the final character "m".
RECURSIVE BracketRun(_, _)
BracketRun(s, i) == IF i <= Len(s) /\ s[i] = "[" THEN 1 + BracketRun(s, i + 1) ELSE 0

MatchLen(s, i) ==
  IF s[i] # "ESC" THEN 0
  ELSE LET k == BracketRun(s, i + 1)
       IN IF i + 1 + k <= Len(s) /\ s[i + 1 + k] = "m" THEN k + 2 ELSE 0

\* split[i].replace(re, "")
RECURSIVE StripFrom(_, _)
StripFrom(s, i) ==
  IF i > Len(s) THEN <<>>
  ELSE IF MatchLen(s, i) > 0 THEN StripFrom(s, i + MatchLen(s, i))
  ELSE <<s[i]>> \o StripFrom(s, i + 1)

Strip(s) == StripFrom(s, 1)

\* OnData with the retained tail dropped: each chunk is split on its own
OnDataNoBuffer(buf, d) ==
  LET split == Split(d)
      lastIx == Len(split)
  IN [lines |-> [i \in 1..(lastIx - 1) |-> <<Strip(split[i]), split[i]>>],
      buffer |-> split[lastIx]]

\* OnData with the last segment passed on as well when it is not empty
OnDataEmitTail(buf, d) ==
  LET split == Split(buf \o d)
      lastIx == Len(split)
      n == IF split[lastIx] = <<>> THEN lastIx - 1 ELSE lastIx
  IN [lines |-> [i \in 1..n |-> <<Strip(split[i]), split[i]>>],
      buffer |-> <<>>]

\* the "data" handler of onLine: the (stripped, original) pairs passed to
\* the callback, in order, and the new buffer
OnData(buf, d) ==
  LET split == Split(buf \o d)
      lastIx == Len(split)
  IN [lines |-> [i \in 1..(lastIx - 1) |-> <<Strip(split[i]), split[i]>>],
      buffer |-> split[lastIx]]

\* line.includes(marker)
Includes(line, marker) == \E i \in 1..Len(line) : line[i] = marker

\* ---------------------------------------------------------------- state
VARIABLES
  phase,            \* "Idle" before watch(), "Running", "Terminated" after process.exit
  autoPatch,        \* process.env.AUTO_PATCH is set
  vscode,           \* editor-core watcher: "none", "live", "killed" (exit pending), "exited"
  tsc,              \* type-checker watcher, same statuses
  vscodeListeners,  \* the "exit" listener of vscode is attached
  tscListeners,     \* the "exit" listener of tsc is attached
  servers,          \* every server forked so far, by status, in fork order
  server,           \* index in servers of the `server` variable, 0 when undefined
  bundle,           \* the `bundle` promise: "none", "pending", "resolved", "rejected"
  building,         \* the bundler is between buildStart and buildEnd/buildError
  thenQueue,        \* restartServer callbacks registered on `bundle`, not yet run
  vscodeBuffer,     \* `buffer` of onLine(vscode, ...)
  tscBuffer,        \* `buffer` of onLine(tsc, ...)
  startingVscode,   \* the armed flag
  patchLaunches,    \* cp.exec("yarn patch:generate") calls
  trace,            \* "terminated unexpectedly" logs, kills and exit of cleanup, in order
  exitCode,         \* <<>> while running, <<n>> after process.exit(n)
  last,             \* the handler that ran last: named when it logs or exits, "other" if not
  \* history, not program state
  sawStart,         \* a complete line with "Starting watch-client" was read from vscode
  armedFinished,    \* "Finished compilation" lines read after such a line
  vscodeLineCount,  \* complete lines read from vscode
  watchingSeen,     \* complete "Watching for file changes" lines read from tsc
  pendingSeen,      \* those of them read while `bundle` was pending
  cleanupArgs,      \* the argument of every cleanup call, in call order
  \* SpecReader
  rdStream,         \* the whole stream a child writes
  rdPos,            \* characters of it delivered so far
  rdBuffer,         \* `buffer` of the reader
  rdEmitted,        \* (stripped, original) pairs passed to the callback so far
  rdCuts,           \* history: the positions of rdStream at which a chunk ended
  \* the run up to the dispatch of doRun, and the build pipeline
  pc,               \* where the run is: "start", "probe", "dispatch", "watch", ...
  task,             \* process.argv[2]; "none" when absent
  platformDarwin,   \* os.platform() === "darwin"
  ostypeDarwin,     \* process.env.OSTYPE starts with darwin
  probe,            \* what `ldd --version` does on this host: ok, stdout, stderr
  skipVscode,       \* process.env.SKIP_VSCODE is set
  minify,           \* process.env.MINIFY is set
  target,           \* this._target, "none" while undefined
  ret,              \* where the pending target() call returns to
  flow,             \* the flow doRun dispatched to, "none" before
  stageIx,          \* index of the current stage of build()
  stageLog,         \* what task() wrote: start, took, failed, per stage, in order
  \* history
  probes,           \* executions of `ldd --version`
  spawned,          \* child processes spawned by the run outside watch()
  returned          \* the value of every completed target() call, in order

supVars == <<phase, autoPatch, vscode, tsc, vscodeListeners, tscListeners, servers,
             server, bundle, building, thenQueue, vscodeBuffer, tscBuffer,
             startingVscode, patchLaunches, trace, exitCode, last>>
histVars == <<sawStart, armedFinished, vscodeLineCount, watchingSeen, pendingSeen,
              cleanupArgs>>
rdVars == <<rdStream, rdPos, rdBuffer, rdEmitted, rdCuts>>
runVars == <<pc, task, platformDarwin, ostypeDarwin, probe, skipVscode, minify, target,
             ret, flow, stageIx, stageLog, probes, spawned, returned>>
vars == <<supVars, histVars, rdVars, runVars>>

\* groups for UNCHANGED
childVars == <<vscode, tsc, vscodeListeners, tscListeners>>
serverVars == <<servers, server>>
vscodeLineVars == <<vscodeBuffer, startingVscode, patchLaunches, sawStart,
                    armedFinished, vscodeLineCount>>
tscLineVars == <<tscBuffer, watchingSeen, pendingSeen>>
exitVars == <<trace, exitCode, cleanupArgs>>

SupInit ==
  /\ phase = "Idle"
  /\ autoPatch \in BOOLEAN
  /\ vscode = "none" /\ tsc = "none"
  /\ vscodeListeners = FALSE /\ tscListeners = FALSE
  /\ servers = <<>> /\ server = 0
  /\ bundle = "none" /\ building = FALSE /\ thenQueue = 0
  /\ vscodeBuffer = <<>> /\ tscBuffer = <<>>
  /\ startingVscode = FALSE /\ patchLaunches = 0
  /\ trace = <<>> /\ exitCode = <<>> /\ last = "init"
  /\ sawStart = FALSE /\ armedFinished = 0 /\ vscodeLineCount = 0
  /\ watchingSeen = 0 /\ pendingSeen = 0
  /\ cleanupArgs = <<>>

RdIdle ==
  rdStream = <<>> /\ rdPos = 0 /\ rdBuffer = <<>> /\ rdEmitted = <<>> /\ rdCuts = {}

\* doRun has resolved the target of a darwin host and calls watch(); watch()
\* reads none of these variables
RunAtWatch ==
  /\ pc = "watch" /\ task = "watch" /\ flow = "watch"
  /\ platformDarwin = TRUE /\ ostypeDarwin = FALSE
  /\ probe = [ok |-> TRUE, stdout |-> <<>>, stderr |-> <<>>]
  /\ skipVscode = FALSE /\ minify = FALSE
  /\ target = "darwin" /\ ret = "none"
  /\ stageIx = 0 /\ stageLog = <<>>
  /\ probes = 0 /\ spawned = 0 /\ returned = <<"darwin">>

Init == SupInit /\ RdIdle /\ RunAtWatch

\* MicrotaskReady with restartServer called at once instead of through
\* bundle.then()
MicrotaskReadyNoWait == thenQueue > 0

\* a callback registered with bundle.then() is due: it runs before any
\* other event is handled
MicrotaskReady == bundle = "resolved" /\ thenQueue > 0

\* an event handler of the running script may run
CanHandle == phase = "Running" /\ ~MicrotaskReady

\* ---------------------------------------------------------------- watch
\* watch() up to its return: spawns the two watchers, creates the bundler,
\* starts the first bundle and registers every handler
Watch ==
  /\ phase = "Idle" /\ pc = "watch"
  /\ phase' = "Running"
  /\ vscode' = "live" /\ tsc' = "live"
  /\ vscodeListeners' = TRUE /\ tscListeners' = TRUE
  /\ bundle' = "pending" /\ building' = TRUE
  /\ last' = "watch"
  /\ UNCHANGED <<autoPatch, serverVars, thenQueue, vscodeLineVars, tscLineVars,
                 exitVars, rdVars, runVars>>

\* child.kill(): a live child is signalled, its exit is still to come
Kill(st) == IF st = "live" THEN "killed" ELSE st

\* ------------------------------------------------------- restartServer
\* restartServer, run as a callback of bundle.then()
RestartServer ==
  /\ phase = "Running" /\ MicrotaskReady
  /\ thenQueue' = thenQueue - 1
  /\ servers' = Append(IF server # 0 THEN [servers EXCEPT ![server] = Kill(@)] ELSE servers,
                       "live")
  /\ server' = Len(servers) + 1
  /\ last' = "other"
  /\ UNCHANGED <<phase, autoPatch, childVars, bundle, building, vscodeLineVars,
                 tscLineVars, exitVars, rdVars, runVars>>

\* ServerExit handled like the exit of a watcher: log and cleanup(code)
ServerExitFatal(i) ==
  /\ CanHandle
  /\ i \in 1..Len(servers) /\ servers[i] \in {"live", "killed"}
  /\ servers' = [servers EXCEPT ![i] = "exited"]
  /\ last' = "serverExit"
  /\ trace' = trace \o <<"server terminated unexpectedly", "kill vscode", "kill tsc",
                         "kill server", "exit">>
  /\ vscodeListeners' = FALSE /\ vscode' = Kill(vscode)
  /\ tscListeners' = FALSE /\ tsc' = Kill(tsc)
  /\ exitCode' = <<1>>
  /\ phase' = "Terminated"
  /\ cleanupArgs' = Append(cleanupArgs, Num(1))
  /\ UNCHANGED <<autoPatch, server, bundle, building, thenQueue, vscodeLineVars,
                 tscLineVars, rdVars, runVars>>

\* the "exit" event of a forked server (killed by restartServer, or on its
\* own): the listener only logs
ServerExit(i) ==
  /\ CanHandle
  /\ i \in 1..Len(servers) /\ servers[i] \in {"live", "killed"}
  /\ servers' = [servers EXCEPT ![i] = "exited"]
  /\ last' = "serverExit"
  /\ UNCHANGED <<phase, autoPatch, childVars, server, bundle, building, thenQueue,
                 vscodeLineVars, tscLineVars, exitVars, rdVars, runVars>>

\* -------------------------------------------------------------- cleanup
\* Cleanup without process.exit: the script keeps running
CleanupNoExit(code, logged, vs, ts) ==
  /\ trace' = trace \o logged \o <<"kill vscode", "kill tsc">>
              \o (IF server # 0 THEN <<"kill server">> ELSE <<>>)
  /\ vscodeListeners' = FALSE /\ vscode' = Kill(vs)
  /\ tscListeners' = FALSE /\ tsc' = Kill(ts)
  /\ servers' = IF server # 0 THEN [servers EXCEPT ![server] = Kill(@)] ELSE servers
  /\ exitCode' = exitCode
  /\ phase' = phase
  /\ cleanupArgs' = Append(cleanupArgs, code)
  /\ UNCHANGED <<autoPatch, server, thenQueue, vscodeLineVars, tscLineVars, rdVars, runVars>>

\* Cleanup with the server killed first and the watchers after it
CleanupServerFirst(code, logged, vs, ts) ==
  /\ trace' = trace \o logged \o (IF server # 0 THEN <<"kill server">> ELSE <<>>)
              \o <<"kill vscode", "kill tsc", "exit">>
  /\ vscodeListeners' = FALSE /\ vscode' = Kill(vs)
  /\ tscListeners' = FALSE /\ tsc' = Kill(ts)
  /\ servers' = IF server # 0 THEN [servers EXCEPT ![server] = Kill(@)] ELSE servers
  /\ exitCode' = <<OrZero(code)>>
  /\ phase' = "Terminated"
  /\ cleanupArgs' = Append(cleanupArgs, code)
  /\ UNCHANGED <<autoPatch, server, thenQueue, vscodeLineVars, tscLineVars, rdVars, runVars>>

\* Cleanup with the listeners of the watchers left attached
CleanupKeepListeners(code, logged, vs, ts) ==
  /\ trace' = trace \o logged \o <<"kill vscode", "kill tsc">>
              \o (IF server # 0 THEN <<"kill server">> ELSE <<>>) \o <<"exit">>
  /\ vscodeListeners' = vscodeListeners /\ vscode' = Kill(vs)
  /\ tscListeners' = tscListeners /\ tsc' = Kill(ts)
  /\ servers' = IF server # 0 THEN [servers EXCEPT ![server] = Kill(@)] ELSE servers
  /\ exitCode' = <<OrZero(code)>>
  /\ phase' = "Terminated"
  /\ cleanupArgs' = Append(cleanupArgs, code)
  /\ UNCHANGED <<autoPatch, server, thenQueue, vscodeLineVars, tscLineVars, rdVars, runVars>>

\* cleanup(code), called by a handler that logged `logged` first; vs and ts
\* are the statuses of the watchers when it is called
Cleanup(code, logged, vs, ts) ==
  /\ trace' = trace \o logged \o <<"kill vscode", "kill tsc">>
              \o (IF server # 0 THEN <<"kill server">> ELSE <<>>) \o <<"exit">>
  /\ vscodeListeners' = FALSE /\ vscode' = Kill(vs)
  /\ tscListeners' = FALSE /\ tsc' = Kill(ts)
  /\ servers' = IF server # 0 THEN [servers EXCEPT ![server] = Kill(@)] ELSE servers
  /\ exitCode' = <<OrZero(code)>>
  /\ phase' = "Terminated"
  /\ cleanupArgs' = Append(cleanupArgs, code)
  /\ UNCHANGED <<autoPatch, server, thenQueue, vscodeLineVars, tscLineVars, rdVars, runVars>>

\* process.on("SIGINT", () => cleanup())
Sigint ==
  /\ CanHandle
  /\ last' = "SIGINT"
  /\ Cleanup(Undefined, <<>>, vscode, tsc)
  /\ UNCHANGED <<bundle, building>>

\* process.on("SIGTERM", () => cleanup())
Sigterm ==
  /\ CanHandle
  /\ last' = "SIGTERM"
  /\ Cleanup(Undefined, <<>>, vscode, tsc)
  /\ UNCHANGED <<bundle, building>>

\* vscode.on("exit", ...)
VscodeExit(code) ==
  /\ CanHandle
  /\ vscode = "live" /\ vscodeListeners
  /\ last' = "vscodeExit"
  /\ Cleanup(code, <<"vs code watcher terminated unexpectedly">>, "exited", tsc)
  /\ UNCHANGED <<bundle, building>>

\* tsc.on("exit", ...)
TscExit(code) ==
  /\ CanHandle
  /\ tsc = "live" /\ tscListeners
  /\ last' = "tscExit"
  /\ Cleanup(code, <<"tsc terminated unexpectedly">>, vscode, "exited")
  /\ UNCHANGED <<bundle, building>>

\* -------------------------------------------------------------- bundler
\* the bundler reports the end of a build: bundler.on("buildEnd", ...) logs
BuildEnd ==
  /\ CanHandle
  /\ building
  /\ building' = FALSE
  /\ last' = "other"
  /\ UNCHANGED <<phase, autoPatch, childVars, serverVars, bundle, thenQueue,
                 vscodeLineVars, tscLineVars, exitVars, rdVars, runVars>>

\* BuildError handled like a rejected bundle: log and cleanup(1)
BuildErrorFatal ==
  /\ CanHandle
  /\ building
  /\ building' = FALSE
  /\ last' = "buildError"
  /\ Cleanup(Num(1), <<"parcel watcher terminated unexpectedly">>, vscode, tsc)
  /\ UNCHANGED bundle

\* the bundler reports a failed build: bundler.on("buildError", ...) logs
BuildError ==
  /\ CanHandle
  /\ building
  /\ building' = FALSE
  /\ last' = "buildError"
  /\ UNCHANGED <<phase, autoPatch, childVars, serverVars, bundle, thenQueue,
                 vscodeLineVars, tscLineVars, exitVars, rdVars, runVars>>

\* the watching bundler starts a rebuild after its first build; the script
\* has no handler for it
BuildStart ==
  /\ CanHandle
  /\ bundle = "resolved" /\ ~building
  /\ building' = TRUE
  /\ last' = "other"
  /\ UNCHANGED <<phase, autoPatch, childVars, serverVars, bundle, thenQueue,
                 vscodeLineVars, tscLineVars, exitVars, rdVars, runVars>>

\* bundler.bundle() resolves once the first build is over; the callbacks
\* registered on `bundle` become due
BundleResolve ==
  /\ CanHandle
  /\ bundle = "pending" /\ ~building
  /\ bundle' = "resolved"
  /\ last' = "other"
  /\ UNCHANGED <<phase, autoPatch, childVars, serverVars, building, thenQueue,
                 vscodeLineVars, tscLineVars, exitVars, rdVars, runVars>>

\* BundleReject with a catch handler that only logs: `bundle` is then
\* fulfilled and its callbacks run
BundleRejectResumes ==
  /\ CanHandle
  /\ bundle = "pending"
  /\ bundle' = "resolved" /\ building' = FALSE
  /\ last' = "bundleReject"
  /\ UNCHANGED <<phase, autoPatch, childVars, serverVars, thenQueue,
                 vscodeLineVars, tscLineVars, exitVars, rdVars, runVars>>

\* bundler.bundle() rejects: the catch handler logs and calls cleanup(1)
BundleReject ==
  /\ CanHandle
  /\ bundle = "pending"
  /\ bundle' = "rejected" /\ building' = FALSE
  /\ last' = "bundleReject"
  /\ Cleanup(Num(1), <<"parcel watcher terminated unexpectedly">>, vscode, tsc)

\* ------------------------------------------------------ output triggers
\* VscodeCallback with a launch only the first time
VscodeCallbackOnce(st, line) ==
  IF ~st.startingVscode /\ Includes(line, StartingWatchClient)
  THEN [st EXCEPT !.startingVscode = TRUE]
  ELSE IF st.startingVscode /\ Includes(line, FinishedCompilation) /\ autoPatch
          /\ st.patchLaunches = 0
  THEN [st EXCEPT !.patchLaunches = @ + 1]
  ELSE st

\* VscodeCallback with the armed flag not consulted before launching
VscodeCallbackUnarmed(st, line) ==
  IF ~st.startingVscode /\ Includes(line, StartingWatchClient)
  THEN [st EXCEPT !.startingVscode = TRUE]
  ELSE IF Includes(line, FinishedCompilation) /\ autoPatch
  THEN [st EXCEPT !.patchLaunches = @ + 1]
  ELSE st

\* the callback of onLine(vscode, ...) on one stripped line; st holds
\* startingVscode and the number of patch:generate launches
VscodeCallback(st, line) ==
  IF ~st.startingVscode /\ Includes(line, StartingWatchClient)
  THEN [st EXCEPT !.startingVscode = TRUE]
  ELSE IF st.startingVscode /\ Includes(line, FinishedCompilation) /\ autoPatch
  THEN [st EXCEPT !.patchLaunches = @ + 1]
  ELSE st

\* the for loop of the data handler over the lines from index i on
RECURSIVE VscodeLoop(_, _, _)
VscodeLoop(st, lines, i) ==
  IF i > Len(lines) THEN st
  ELSE VscodeLoop(VscodeCallback(st, lines[i][1]), lines, i + 1)

\* TscCallback with a restart registered for every line
TscCallbackAnyLine(q, line) == q + 1

\* TscCallback with no restart registered while one is already waiting
TscCallbackCoalesce(q, line) ==
  IF Includes(line, WatchingForFileChanges) /\ q = 0 THEN q + 1 ELSE q

\* the callback of onLine(tsc, ...) on one stripped line; q is the number
\* of restartServer callbacks registered on `bundle`
TscCallback(q, line) ==
  IF Includes(line, WatchingForFileChanges) THEN q + 1 ELSE q

RECURSIVE TscLoop(_, _, _)
TscLoop(q, lines, i) ==
  IF i > Len(lines) THEN q
  ELSE TscLoop(TscCallback(q, lines[i][1]), lines, i + 1)

\* history: the lines of `lines` that contain the marker
WithMarker(lines, marker) == {i \in 1..Len(lines) : Includes(lines[i][2], marker)}

\* history: the "Finished compilation" lines of `lines` that come after a
\* line with "Starting watch-client" (an earlier one of `lines`, or seen)
FinishedAfterStart(lines, seen) ==
  {i \in WithMarker(lines, FinishedCompilation) :
     seen \/ \E j \in WithMarker(lines, StartingWatchClient) : j < i}

\* a chunk of output of the editor-core watcher arrives
VscodeData(d) ==
  /\ CanHandle
  /\ vscode = "live"
  /\ LET r == OnData(vscodeBuffer, d)
         st == VscodeLoop([startingVscode |-> startingVscode,
                           patchLaunches |-> patchLaunches], r.lines, 1)
     IN /\ Len(r.buffer) + Len(tscBuffer) <= MaxBuf
        /\ vscodeLineCount + Len(r.lines) <= MaxVscodeLines
        /\ vscodeBuffer' = r.buffer
        /\ startingVscode' = st.startingVscode
        /\ patchLaunches' = st.patchLaunches
        /\ vscodeLineCount' = vscodeLineCount + Len(r.lines)
        /\ sawStart' = (sawStart \/ WithMarker(r.lines, StartingWatchClient) # {})
        /\ armedFinished' = armedFinished
                            + Cardinality(FinishedAfterStart(r.lines, sawStart))
  /\ last' = "other"
  /\ UNCHANGED <<phase, autoPatch, childVars, serverVars, bundle, building, thenQueue,
                 tscLineVars, exitVars, rdVars, runVars>>

\* a chunk of output of the type-checker watcher arrives
TscData(d) ==
  /\ CanHandle
  /\ tsc = "live"
  /\ LET r == OnData(tscBuffer, d)
         n == Cardinality(WithMarker(r.lines, WatchingForFileChanges))
     IN /\ Len(vscodeBuffer) + Len(r.buffer) <= MaxBuf
        /\ watchingSeen + n <= MaxRestarts
        /\ tscBuffer' = r.buffer
        /\ thenQueue' = TscLoop(thenQueue, r.lines, 1)
        /\ watchingSeen' = watchingSeen + n
        /\ pendingSeen' = pendingSeen + (IF bundle = "pending" THEN n ELSE 0)
  /\ last' = "other"
  /\ UNCHANGED <<phase, autoPatch, childVars, serverVars, bundle, building,
                 vscodeLineVars, exitVars, rdVars, runVars>>

\* ------------------------------------------------------- specification
Next ==
  \/ Watch
  \/ RestartServer
  \/ \E i \in 1..Len(servers) : ServerExit(i)
  \/ Sigint
  \/ Sigterm
  \/ \E code \in ChildExitCodes : VscodeExit(code)
  \/ \E code \in ChildExitCodes : TscExit(code)
  \/ BuildEnd
  \/ BuildError
  \/ BuildStart
  \/ BundleResolve
  \/ BundleReject
  \/ \E d \in Chunks(VscodeAlphabet) : VscodeData(d)
  \/ \E d \in Chunks(TscAlphabet) : TscData(d)

Spec == Init /\ [][Next]_vars

\* ------------------------------------------- the line reader on its own
\* a child writes rdStream; it reaches the reader cut into chunks anywhere
RdInit ==
  /\ SupInit /\ ~autoPatch /\ RunAtWatch
  /\ rdStream \in SeqsUpTo(ReaderAlphabet, MaxStream)
  /\ rdPos = 0 /\ rdBuffer = <<>> /\ rdEmitted = <<>> /\ rdCuts = {}

\* proc.stdout.on("data", ...) for the next n characters of the stream
RdData(n) ==
  /\ rdPos + n <= Len(rdStream)
  /\ LET r == OnData(rdBuffer, SubSeq(rdStream, rdPos + 1, rdPos + n))
     IN /\ rdBuffer' = r.buffer
        /\ rdEmitted' = rdEmitted \o r.lines
  /\ rdPos' = rdPos + n
  /\ rdCuts' = rdCuts \cup {rdPos + n}
  /\ UNCHANGED <<supVars, histVars, rdStream, runVars>>

RdNext == \E n \in 1..MaxStream : RdData(n)

SpecReader == RdInit /\ [][RdNext]_vars

\* ------------------------------------------------ the run and its flows
\* enum Task
Tasks == {"binary", "package", "build", "watch"}

\* what process.argv[2] may be: a task, absent, or another word
ArgvTasks == Tasks \cup {"none", "bogus"}

\* what `ldd --version` may write to one of its streams
LddOutputs == {<<>>, <<"musl">>, <<"GNU libc">>}

\* /musl/.test(text)
TestMusl(text) == Includes(text, "musl")

\* error.message of a failed exec: the command line and the child's stderr
ErrorMessage(p) == <<"Command failed: ldd --version", NL>> \o p.stderr

\* the outcome of promisify(cp.exec)("ldd --version").catch(...)
ProbeResult(p) ==
  IF p.ok THEN [stderr |-> p.stderr, stdout |-> p.stdout]
  ELSE [stderr |-> ErrorMessage(p), stdout |-> <<>>]

\* TargetOf with only stdout inspected
TargetOfStdoutOnly(result) == IF TestMusl(result.stdout) THEN "alpine" ELSE "linux"

\* the target chosen from the outcome of the probe
TargetOf(result) ==
  IF TestMusl(result.stderr) \/ TestMusl(result.stdout) THEN "alpine" ELSE "linux"

\* the state the run flows leave alone
watchVars == <<phase, autoPatch, childVars, serverVars, bundle, building, thenQueue,
               vscodeLineVars, tscLineVars, cleanupArgs, last, rdVars>>
envVars == <<task, platformDarwin, ostypeDarwin, probe, skipVscode, minify>>

\* run()'s catch: console.error(error.message); process.exit(1)
RunFail(message) ==
  /\ pc' = "exited"
  /\ exitCode' = <<1>>
  /\ trace' = trace \o <<message, "exit">>

\* the flow returned without error: the script ends with code 0
RunDone ==
  /\ pc' = "done"
  /\ exitCode' = <<0>>

\* TargetStart without the cache: the target is resolved on every call
TargetStartNoMemo(retpc) ==
  IF platformDarwin \/ ostypeDarwin
  THEN /\ target' = "darwin"
       /\ pc' = retpc
       /\ returned' = Append(returned, "darwin")
       /\ UNCHANGED <<ret, probes, spawned>>
  ELSE /\ pc' = "probe"
       /\ ret' = retpc
       /\ probes' = probes + 1
       /\ spawned' = spawned + 1
       /\ UNCHANGED <<target, returned>>

\* target() up to its return or to the await of the probe; retpc is where
\* the caller goes on
TargetStart(retpc) ==
  IF target # "none"
  THEN /\ pc' = retpc
       /\ returned' = Append(returned, target)
       /\ UNCHANGED <<target, ret, probes, spawned>>
  ELSE IF platformDarwin \/ ostypeDarwin
  THEN /\ target' = "darwin"
       /\ pc' = retpc
       /\ returned' = Append(returned, "darwin")
       /\ UNCHANGED <<ret, probes, spawned>>
  ELSE /\ pc' = "probe"
       /\ ret' = retpc
       /\ probes' = probes + 1
       /\ spawned' = spawned + 1
       /\ UNCHANGED <<target, returned>>

\* the probe settles and target() returns
ProbeReturn ==
  /\ pc = "probe"
  /\ target' = TargetOf(ProbeResult(probe))
  /\ returned' = Append(returned, TargetOf(ProbeResult(probe)))
  /\ pc' = ret
  /\ ret' = "none"
  /\ UNCHANGED <<watchVars, envVars, trace, exitCode, flow, stageIx, stageLog,
                 probes, spawned>>

\* run(task) and doRun up to `await this.target()`
DoRun ==
  /\ pc = "start"
  /\ IF task = "none"
     THEN /\ RunFail("No task provided")
          /\ UNCHANGED <<target, ret, probes, spawned, returned>>
     ELSE /\ TargetStart("dispatch")
          /\ UNCHANGED <<trace, exitCode>>
  /\ UNCHANGED <<watchVars, envVars, flow, stageIx, stageLog>>

\* the switch of doRun; binary() starts with `await this.target()`
Dispatch ==
  /\ pc = "dispatch"
  /\ CASE task = "watch" ->
            /\ flow' = "watch" /\ pc' = "watch"
            /\ UNCHANGED <<trace, exitCode, target, ret, probes, spawned, returned, stageIx>>
       [] task = "binary" ->
            /\ flow' = "binary"
            /\ TargetStart("binaryBuild")
            /\ UNCHANGED <<trace, exitCode, stageIx>>
       [] task = "package" ->
            /\ flow' = "package" /\ pc' = "packageCopy"
            /\ UNCHANGED <<trace, exitCode, target, ret, probes, spawned, returned, stageIx>>
       [] task = "build" ->
            /\ flow' = "build" /\ pc' = "stage" /\ stageIx' = 1
            /\ UNCHANGED <<trace, exitCode, target, ret, probes, spawned, returned>>
       [] OTHER ->
            /\ RunFail("No task matching")
            /\ UNCHANGED <<flow, target, ret, probes, spawned, returned, stageIx>>
  /\ UNCHANGED <<watchVars, envVars, stageLog>>

\* binary() after the target: writes and builds the binary, or throws
BinaryBuild(ok) ==
  /\ pc = "binaryBuild"
  /\ IF ok THEN RunDone /\ UNCHANGED trace ELSE RunFail("binary failed")
  /\ UNCHANGED <<watchVars, envVars, target, ret, flow, stageIx, stageLog,
                 probes, spawned, returned>>

\* package() up to `await this.target()`: the copies, any of which may throw
PackageCopy(ok) ==
  /\ pc = "packageCopy"
  /\ IF ok
     THEN TargetStart("packageArchive") /\ UNCHANGED <<trace, exitCode>>
     ELSE RunFail("copy failed") /\ UNCHANGED <<target, ret, probes, spawned, returned>>
  /\ UNCHANGED <<watchVars, envVars, flow, stageIx, stageLog>>

\* package() after the target: zip on darwin, tar otherwise
PackageArchive(ok) ==
  /\ pc = "packageArchive"
  /\ spawned' = spawned + 1
  /\ IF ok
     THEN /\ RunDone
          /\ trace' = Append(trace, IF target = "darwin" THEN "archive: .zip"
                                    ELSE "archive: .tar.gz")
     ELSE RunFail("archive failed")
  /\ UNCHANGED <<watchVars, envVars, target, ret, flow, stageIx, stageLog, probes,
                 returned>>

\* the stages of buildVscode and of copyDependencies("vs code", ...)
VscodeStages ==
  <<"building vs code", "building builtin extensions", "optimizing vs code">>
  \o (IF minify THEN <<"minifying vs code">> ELSE <<>>)
  \o <<"generating vs code product configuration",
       "inserting vs code product configuration",
       "copying vs code into build directory",
       "copying vs code dependencies">>
  \o (IF minify THEN <<"restricting vs code to production dependencies">> ELSE <<>>)
  \o <<"writing final vs code product.json">>

\* the stages of buildCodeServer
CodeServerStages ==
  <<"building code-server", "bundling code-server",
    "copying code-server into build directory",
    "copying code-server dependencies">>
  \o (IF minify THEN <<"restricting code-server to production dependencies">> ELSE <<>>)
  \o <<"writing final code-server package.json">>

\* the stages of build(), in the order of the awaits
Stages ==
  <<"cleaning up old build">>
  \o (IF skipVscode THEN <<>> ELSE VscodeStages)
  \o CodeServerStages

\* the stages whose action runs a command with cp.exec
ExecStages ==
  {"building vs code", "building builtin extensions", "optimizing vs code",
   "minifying vs code", "restricting vs code to production dependencies",
   "building code-server", "restricting code-server to production dependencies"}

\* task(): logs the label and starts the action
StageStart ==
  /\ pc = "stage"
  /\ stageLog' = Append(stageLog, <<"start", Stages[stageIx]>>)
  /\ spawned' = spawned + (IF Stages[stageIx] \in ExecStages THEN 1 ELSE 0)
  /\ pc' = "inStage"
  /\ UNCHANGED <<watchVars, envVars, trace, exitCode, target, ret, flow, stageIx,
                 probes, returned>>

\* task(): the action resolved, "took ...ms" is logged; the next await
StageSucceed ==
  /\ pc = "inStage"
  /\ stageLog' = Append(stageLog, <<"took", Stages[stageIx]>>)
  /\ IF stageIx = Len(Stages)
     THEN RunDone /\ UNCHANGED stageIx
     ELSE pc' = "stage" /\ stageIx' = stageIx + 1 /\ UNCHANGED exitCode
  /\ UNCHANGED <<watchVars, envVars, trace, target, ret, flow, probes, spawned,
                 returned>>

\* StageFail with the error swallowed: "failed" is logged, the pipeline goes on
StageFailContinue ==
  /\ pc = "inStage"
  /\ stageLog' = Append(stageLog, <<"failed", Stages[stageIx]>>)
  /\ IF stageIx = Len(Stages)
     THEN RunDone /\ UNCHANGED stageIx
     ELSE pc' = "stage" /\ stageIx' = stageIx + 1 /\ UNCHANGED exitCode
  /\ UNCHANGED <<watchVars, envVars, trace, target, ret, flow, probes, spawned,
                 returned>>

\* task(): the action rejected, "failed" is logged and the error rethrown
\* up to run()'s catch
StageFail ==
  /\ pc = "inStage"
  /\ stageLog' = Append(stageLog, <<"failed", Stages[stageIx]>>)
  /\ RunFail("stage failed")
  /\ UNCHANGED <<watchVars, envVars, target, ret, flow, stageIx, probes, spawned,
                 returned>>

\* build(): getVersion, called between the first stage and the next, throws
GetVersionFails ==
  /\ pc = "stage" /\ stageIx = 2
  /\ RunFail("getVersion failed")
  /\ UNCHANGED <<watchVars, envVars, target, ret, flow, stageIx, stageLog, probes,
                 spawned, returned>>

\* the script is started: any task word, host and environment
RunInit ==
  /\ SupInit /\ ~autoPatch /\ RdIdle
  /\ pc = "start"
  /\ task \in ArgvTasks
  /\ platformDarwin \in BOOLEAN /\ ostypeDarwin \in BOOLEAN
  /\ probe \in [ok : BOOLEAN, stdout : LddOutputs, stderr : LddOutputs]
  /\ skipVscode \in BOOLEAN /\ minify \in BOOLEAN
  /\ target = "none" /\ ret = "none" /\ flow = "none"
  /\ stageIx = 0 /\ stageLog = <<>>
  /\ probes = 0 /\ spawned = 0 /\ returned = <<>>

RunNext ==
  \/ DoRun
  \/ ProbeReturn
  \/ Dispatch
  \/ \E ok \in BOOLEAN : BinaryBuild(ok)
  \/ \E ok \in BOOLEAN : PackageCopy(ok)
  \/ \E ok \in BOOLEAN : PackageArchive(ok)
  \/ StageStart
  \/ StageSucceed
  \/ StageFail
  \/ GetVersionFails
  \/ Watch

SpecRun == RunInit /\ [][RunNext]_vars

\* ================================================================ claims

\* the servers that were forked and whose exit has not been observed
LiveServers == {i \in 1..Len(servers) : servers[i] # "exited"}

\* C1: in watch mode at most one server child process is live (forked and
\* its exit not yet observed) in every reachable state.
C1_AtMostOneLiveServer == Cardinality(LiveServers) <= 1

\* C2: when the vscode or the tsc watcher exits while the supervisor is
\* running, whatever the child's exit status, "terminated unexpectedly" is
\* logged, shutdown is performed and the run exits with code 1.
C2_UnexpectedExitIsFatal ==
  last \in {"vscodeExit", "tscExit"} =>
    /\ phase = "Terminated"
    /\ trace[1] \in {"vs code watcher terminated unexpectedly", "tsc terminated unexpectedly"}
    /\ exitCode = <<1>>

\* C3 as stated: the auto-patch command is launched at most once per run.
C3_AtMostOneLaunch == patchLaunches <= 1

\* C3 amended: with the auto-patch flag set the command is launched once
\* for every "Finished compilation" line read after a "Starting
\* watch-client" line, so N such lines give N launches; without the flag
\* it is never launched.
C3_LaunchPerFinishedLine == patchLaunches = (IF autoPatch THEN armedFinished ELSE 0)

C3_Witness == autoPatch /\ armedFinished >= 2 /\ patchLaunches = armedFinished

\* C4: no server is forked while the bundle promise is pending, the
\* restarts asked for meanwhile stay registered, and once the promise is
\* resolved and its callbacks have run there is exactly one fork for every
\* "Watching for file changes" line.
C4_RestartDeferredUntilBundle ==
  /\ bundle # "resolved" => servers = <<>> /\ thenQueue = pendingSeen
  /\ bundle = "resolved" => thenQueue + Len(servers) = watchingSeen

C4_Witness ==
  /\ pendingSeen = 1 /\ watchingSeen = 1
  /\ bundle = "resolved" /\ thenQueue = 0 /\ Len(servers) = 1

\* C5: no server restart takes place while a bundler build is in flight,
\* rebuilds after the first build included.
C5_NoRestartDuringBuild == [][Len(servers') > Len(servers) => ~building]_vars

\* the number of times event e occurs in the trace
Occurrences(e) == Cardinality({i \in 1..Len(trace) : trace[i] = e})

\* C6: the teardown of cleanup runs at most once per run, whatever signals
\* and watcher exits occur, and the run exits with the code given to that
\* first call (0 when none is given).
C6_CleanupOnce ==
  /\ Len(cleanupArgs) <= 1
  /\ \A e \in {"kill vscode", "kill tsc", "kill server", "exit"} : Occurrences(e) <= 1
  /\ (phase = "Terminated") = (cleanupArgs # <<>>)
  /\ cleanupArgs # <<>> => exitCode = <<OrZero(cleanupArgs[1])>>

C6_Witness == phase = "Terminated" /\ cleanupArgs = <<Num(2)>> /\ exitCode = <<2>>

\* C7: after an interrupt or terminate signal the side effects are, in this
\* order: kill of the vscode watcher, kill of the tsc watcher, kill of the
\* server if and only if one was forked, exit with code 0; nothing follows
\* the exit.
C7_SignalTeardownOrder ==
  last \in {"SIGINT", "SIGTERM"} =>
    /\ phase = "Terminated"
    /\ trace = <<"kill vscode", "kill tsc">>
               \o (IF servers # <<>> THEN <<"kill server">> ELSE <<>>) \o <<"exit">>
    /\ exitCode = <<0>>

C7_Witness == last = "SIGINT" /\ servers # <<>> /\ Len(trace) = 4

\* C8: handling a buildError event changes nothing of the supervisor: no
\* cleanup, no kill, no fork, no exit; the supervisor stays running.
C8_BuildErrorRecoverable ==
  [][last' = "buildError" =>
       /\ phase' = "Running"
       /\ UNCHANGED <<phase, childVars, serverVars, bundle, thenQueue, exitVars,
                      vscodeLineVars, tscLineVars>>]_vars

C8_Witness == last = "buildError" /\ phase = "Running" /\ Cardinality(LiveServers) >= 1

\* C9: the auto-patch command is launched only with the flag set and only
\* for "Finished compilation" lines read after a "Starting watch-client"
\* line; the armed flag, once true, stays true.
C9_LaunchOnlyWhenArmed ==
  /\ [](/\ patchLaunches > 0 => autoPatch /\ sawStart
        /\ patchLaunches <= armedFinished
        /\ startingVscode = sawStart)
  /\ [][startingVscode => startingVscode']_vars

C9_Witness ==
  /\ patchLaunches = 1 /\ armedFinished = 1 /\ vscodeLineCount = 3

\* the positions of the newlines of s
NewlineAt(s) == {i \in 1..Len(s) : s[i] = NL}

\* the position of the k-th newline of s
KthNewline(s, k) ==
  CHOOSE i \in NewlineAt(s) : Cardinality({j \in NewlineAt(s) : j <= i}) = k

\* the k-th newline-terminated segment of s
Segment(s, k) ==
  SubSeq(s, IF k = 1 THEN 1 ELSE KthNewline(s, k - 1) + 1, KthNewline(s, k) - 1)

\* the newline-terminated segments of s in order, stripped and original
TerminatedLines(s) ==
  [k \in 1..Cardinality(NewlineAt(s)) |-> <<Strip(Segment(s, k)), Segment(s, k)>>]

\* C10: however the stream is cut into chunks, the lines passed to the
\* callback are the newline-terminated segments of what was delivered so
\* far, in order.
C10_ChunkingIrrelevant == rdEmitted = TerminatedLines(SubSeq(rdStream, 1, rdPos))

\* a line that was cut by a chunk boundary has been passed on, after an
\* earlier line
C10_Witness ==
  /\ Len(rdEmitted) >= 2
  /\ \E c \in rdCuts :
       /\ c > 1 /\ c < rdPos
       /\ rdStream[c] # NL /\ rdStream[c + 1] # NL
       /\ \E i \in NewlineAt(rdStream) : i > c + 1 /\ i <= rdPos

\* the task word is no task of the script
BadTask == task \in {"none", "bogus"}

\* C11: with a missing or unrecognized task the run fails fast: it exits
\* with a non-zero code, enters no flow and spawns no child process of any
\* kind before the failure.
C11_ConfigErrorFailsFast ==
  BadTask =>
    /\ flow = "none" /\ pc # "done"
    /\ spawned = 0 /\ vscode = "none" /\ tsc = "none"
    /\ pc = "exited" => exitCode = <<1>>

\* C12: the stages of the build pipeline run one after the other in their
\* order, each started only after the one before it succeeded; a failed
\* stage logs "failed", is not retried, no stage follows it and the run
\* exits with code 1.
C12_StagesSequentialFailFast ==
  \A j \in 1..Len(stageLog) :
    LET k == (j + 1) \div 2
    IN /\ k <= Len(Stages) /\ stageLog[j][2] = Stages[k]
       /\ j % 2 = 1 => stageLog[j][1] = "start"
       /\ j % 2 = 0 => stageLog[j][1] \in {"took", "failed"}
       /\ stageLog[j][1] = "failed" =>
            j = Len(stageLog) /\ pc = "exited" /\ exitCode = <<1>>

C12_Witness ==
  /\ Len(stageLog) >= 4
  /\ stageLog[Len(stageLog)][1] = "failed"
  /\ pc = "exited"

\* C13: over the target() calls of a run the probe command is executed at
\* most once, never on a darwin host, and every call returns the value the
\* first one resolved.
C13_TargetMemoized ==
  /\ probes <= 1
  /\ (platformDarwin \/ ostypeDarwin) => probes = 0
  /\ \A i \in 1..Len(returned) : returned[i] = returned[1] /\ returned[i] = target

C13_Witness == Len(returned) = 2 /\ probes = 1

\* the host is darwin
HostDarwin == platformDarwin \/ ostypeDarwin

\* C14 as stated: darwin gives "darwin"; elsewhere "musl" in the probe's
\* stdout or stderr gives "alpine", empty output with success gives
\* "linux", and a failed probe gives "linux".
C14_MappingAsStated ==
  target # "none" =>
    /\ HostDarwin => target = "darwin"
    /\ ~HostDarwin /\ (TestMusl(probe.stdout) \/ TestMusl(probe.stderr)) => target = "alpine"
    /\ ~HostDarwin /\ probe.ok /\ probe.stdout = <<>> /\ probe.stderr = <<>> => target = "linux"
    /\ ~HostDarwin /\ ~probe.ok => target = "linux"

\* C14 amended: darwin gives "darwin"; elsewhere a successful probe gives
\* "alpine" when its stdout or stderr contains "musl", a failed probe gives
\* "alpine" when its stderr contains "musl" (its stdout is not looked at),
\* and every other probe gives "linux".
C14_TargetMapping ==
  target # "none" =>
    target = (IF HostDarwin THEN "darwin"
              ELSE IF TestMusl(probe.stderr) \/ (probe.ok /\ TestMusl(probe.stdout))
              THEN "alpine" ELSE "linux")

C14_Witness == target = "alpine" /\ ~probe.ok /\ TestMusl(probe.stderr)

\* what follows the last newline of s
AfterLastNewline(s) ==
  IF NewlineAt(s) = {} THEN s
  ELSE SubSeq(s, KthNewline(s, Cardinality(NewlineAt(s))) + 1, Len(s))

\* C15: after every chunk the retained buffer has no newline and is what
\* the stream delivered after its last newline; only newline-terminated
\* segments have been passed to the callback.
C15_TailWithheld ==
  LET delivered == SubSeq(rdStream, 1, rdPos)
  IN /\ NewlineAt(rdBuffer) = {}
     /\ rdBuffer = AfterLastNewline(delivered)
     /\ Len(rdEmitted) = Cardinality(NewlineAt(delivered))

C15_Witness ==
  /\ rdPos = Len(rdStream) /\ Cardinality(rdCuts) >= 2
  /\ rdBuffer # <<>> /\ Len(rdEmitted) >= 1

\* the messages of the exit handlers of the two watchers
WatcherMessages ==
  {"vs code watcher terminated unexpectedly", "tsc terminated unexpectedly"}

\* C16: cleanup detaches the listeners of a child before killing it, so a
\* child killed by the shutdown has no listener left; "terminated
\* unexpectedly" is logged only by the exit handler of a watcher that
\* exited before the shutdown, ahead of every kill, and at most once.
C16_NoSpuriousUnexpected ==
  /\ vscode = "killed" => ~vscodeListeners
  /\ tsc = "killed" => ~tscListeners
  /\ \A i \in 1..Len(trace) :
       trace[i] \in WatcherMessages =>
         /\ i = 1
         /\ last \in {"vscodeExit", "tscExit"}
         /\ trace[i] = "vs code watcher terminated unexpectedly" => vscode = "exited"
         /\ trace[i] = "tsc terminated unexpectedly" => tsc = "exited"

C16_Witness ==
  /\ last = "tscExit" /\ vscode = "killed" /\ ~vscodeListeners
  /\ Occurrences("tsc terminated unexpectedly") = 1

\* C17: a server exists only after tsc wrote a complete "Watching for file
\* changes" line and the first bundle settled; watch() itself starts only
\* the two watchers and the bundler.
C17_ServerNeedsTscAndBundle ==
  /\ [](servers # <<>> => watchingSeen >= 1 /\ bundle = "resolved")
  /\ [][phase = "Idle" /\ phase' = "Running" =>
          /\ servers' = <<>> /\ server' = 0
          /\ vscode' = "live" /\ tsc' = "live" /\ bundle' = "pending"]_vars

C17_Witness ==
  /\ Len(servers) = 1 /\ watchingSeen = 1 /\ pendingSeen = 0 /\ phase = "Running"

\* C18: restart requests are neither dropped nor merged: without a
\* shutdown, once the bundle is resolved and its callbacks have run there
\* are as many forks as "Watching for file changes" lines, and every
\* callback that runs forks exactly one server.
C18_RestartsNotCoalesced ==
  /\ [](phase = "Running" /\ bundle = "resolved" /\ thenQueue = 0 =>
          Len(servers) = watchingSeen)
  /\ [][thenQueue' < thenQueue =>
          /\ thenQueue' = thenQueue - 1
          /\ Len(servers') = Len(servers) + 1
          /\ server' = Len(servers')]_vars

C18_Witness ==
  /\ pendingSeen = 2 /\ Len(servers) = 2 /\ thenQueue = 0 /\ phase = "Running"

\* C19: when the bundle promise rejects, the message of the parcel watcher
\* is logged, both watchers are killed, the run exits with code 1 and no
\* server is forked, restarts waiting on the promise included.
C19_BundleRejectFatal ==
  /\ last = "bundleReject" =>
       /\ trace = <<"parcel watcher terminated unexpectedly", "kill vscode",
                    "kill tsc", "exit">>
       /\ exitCode = <<1>>
       /\ bundle = "rejected"
  /\ bundle = "rejected" => phase = "Terminated" /\ servers = <<>>

C19_Witness == last = "bundleReject" /\ thenQueue >= 1 /\ phase = "Terminated"

\* C20: the exit of a live server (one that nothing killed) changes only
\* that server's status: the supervisor stays running with both watchers
\* live, cleanup is not called, nothing is forked, and no restart is
\* registered other than by a new "Watching for file changes" line.
C20_ServerCrashNotFatal ==
  /\ [][(\E i \in 1..Len(servers) : servers[i] = "live" /\ servers'[i] = "exited") =>
          /\ phase' = "Running" /\ vscode' = "live" /\ tsc' = "live"
          /\ Len(servers') = Len(servers)
          /\ thenQueue' = 0
          /\ UNCHANGED <<server, bundle, exitVars>>]_vars
  /\ [][thenQueue' > thenQueue => watchingSeen' > watchingSeen]_vars
  /\ [][Len(servers') > Len(servers) => thenQueue > 0]_vars

C20_Witness ==
  /\ last = "serverExit" /\ phase = "Running"
  /\ server # 0 /\ servers[server] = "exited"

====
